---- MODULE Spec2Model ----
(***************************************************************************)
(* A model of the CommonJS bundler of daaku/go.commonjs: the provider      *)
(* chain (App.Module, CustomProvider, dirProvider, fsProvider), dependency *)
(* resolution (App.buildDeps), packaging (App.content) and URL minting     *)
(* (App.ModulesURL), the bundle server (App.ServeHTTP), the transformed    *)
(* prelude (App.Prelude), concurrent requests on one App, and the loader   *)
(* runtime that runs in the page (define, require, execute).               *)
(*                                                                         *)
(* Strings and []byte values are sequences of byte values, so that         *)
(* sort.Strings, strings.Join, bytes.TrimSpace, json.Marshal and the       *)
(* require('...') scan are computed on bytes as the code computes them.    *)
(***************************************************************************)
EXTENDS Integers, Sequences, FiniteSets, TLC

VARIABLES
    Modules,      \* App.Modules: modules directly owned by the App
    Providers,    \* App.Providers: the fallback providers, in order
    dir,          \* the directory a dirProvider serves: name -> file or absent
    fsys,         \* the FileSystem an fsProvider serves
    modules,      \* CustomProvider.modules: name -> Module
    packageURLs,  \* App.packageURLs: joined root names -> minted URL
    data,         \* memoryStore.data: key -> bundle bytes
    pc,           \* position of the ModulesURL call in progress
    roots,        \* the argument of the ModulesURL call in progress
    set,          \* content's visited set
    names,        \* content's sorted list of the names of set
    stack,        \* the buildDeps activations: <<require list, next index>>
    lookups,      \* names buildDeps has looked up in the call in progress
    failed,       \* names whose lookup or Require() failed in buildDeps
    ret,          \* what the last operation returned
    calls,        \* number of ModulesURL calls made
    packaged,     \* per root list: the first bundle content() built from a
                  \* resolution without a failure, and how often it built one
    Transform,    \* App.Transform: nil or the Transform configured
    prelude,      \* App.prelude: the cached prelude, nil until first computed
    minted,       \* per root list: the URL its first successful ModulesURL returned
                  \* and the bundle content() computed for it
    resp,         \* what ServeHTTP wrote to the ResponseWriter of the last request
    gor,          \* the goroutines serving HTTP requests on one App at a time
    cacheNil,     \* a.packageURLs == nil, as the goroutines see the field
    fatal,        \* the runtime ended the process ("concurrent map writes")
    _payloads,    \* loader: key -> payload defined and not yet instantiated
    _modules,     \* loader: key -> module record {name, exports}
    _execute,     \* loader: the queue of pending calls
    _schedule,    \* loader: a deferred flush is outstanding
    runs,         \* per key: how often its payload function was invoked
    invoked,      \* the calls whose function was invoked, in order
    issued,       \* number of execute calls issued by the page
    js,           \* the last loader call: what it threw, what it returned
    html,         \* what AppScripts.HTML rendered last: the inline statements
    remote,       \* the body the URL of the urlModule serves
    urlm,         \* urlModule.content: nil until a fetch assigns it
    fetches,      \* number of http.Get calls the urlModule made
    uret          \* what the last Content() or Require() of the urlModule returned

\* what the bundle server and the prelude add to the state of the App
web == <<prelude, resp>>

\* the state the operations on one sequential App leave alone
\* what concurrent requests add
conc == <<gor, cacheNil, fatal>>

\* the state of the loader runtime in the page
loader == <<_payloads, _modules, _execute, _schedule, runs, invoked, issued, js>>

\* the page generator and the URL-backed module
aside == <<html, remote, urlm, fetches, uret>>

others == <<web, conc, loader, aside>>

vars == <<Modules, Providers, dir, fsys, modules, packageURLs, data, pc, roots,
          set, names, stack, lookups, failed, ret, calls, packaged, Transform,
          minted, others>>

-----------------------------------------------------------------------------
(* Bounds of the model. *)

\* number of ModulesURL calls in one behaviour
MaxCalls == 2

\* number of goroutines serving requests at the same time
MaxGoroutines == 2

\* number of execute calls the page issues
MaxExecutes == 2

\* http.Get calls the urlModule makes
MaxFetches == 3

\* calls in AppScripts.Calls
MaxPageCalls == 2

-----------------------------------------------------------------------------
(* Byte strings. *)

NA  == <<97>>            \* "a"
NAB == <<97, 98>>        \* "ab"
NBC == <<98, 99>>        \* "bc"
NC  == <<99>>            \* "c"
Names == {NA, NAB, NBC, NC}

\* the empty string
Empty == <<>>

\* const hashLen
hashLen == 7
\* const ext = ".js"
ext == <<46, 106, 115>>
\* const extLen = len(ext)
extLen == Len(ext)

\* App.MountPath, "r" as in the tests
MountPath == <<114>>

RECURSIVE Concat(_)
\* concatenation of a sequence of byte strings (strings.Join(l, ""))
Concat(l) == IF l = <<>> THEN <<>> ELSE Head(l) \o Concat(Tail(l))

\* shorter strings first, whatever their bytes
StrLessByLength(s, t) == Len(s) < Len(t) \/ (Len(s) = Len(t) /\ s # t /\ s[1] < t[1])

RECURSIVE StrLess(_, _)
\* s < t for Go strings: byte-wise lexicographic order
StrLess(s, t) ==
    IF t = <<>> THEN FALSE
    ELSE IF s = <<>> THEN TRUE
    ELSE IF Head(s) # Head(t) THEN Head(s) < Head(t)
    ELSE StrLess(Tail(s), Tail(t))

RECURSIVE Insert(_, _)
Insert(x, l) ==
    IF l = <<>> THEN <<x>>
    ELSE IF StrLess(Head(l), x) THEN <<Head(l)>> \o Insert(x, Tail(l))
    ELSE <<x>> \o l

\* the names left in the order the map yielded them
SortStringsSkipped(l) == l

RECURSIVE SortStrings(_)
\* sort.Strings: the list in ascending byte-wise order
SortStrings(l) == IF l = <<>> THEN <<>> ELSE Insert(Head(l), SortStrings(Tail(l)))

\* the orders in which ranging over a Go map with key set S can yield the keys
MapOrders(S) ==
    { o \in [1..Cardinality(S) -> S] : \A i, j \in 1..Cardinality(S) : o[i] = o[j] => i = j }

-----------------------------------------------------------------------------
(* Content: bytes.TrimSpace, json.Marshal, the require('...') scan. *)

\* unicode.IsSpace on the ASCII range
IsSpace(b) == b \in {9, 10, 11, 12, 13, 32}

RECURSIVE TrimLeft(_)
TrimLeft(s) == IF s # <<>> /\ IsSpace(Head(s)) THEN TrimLeft(Tail(s)) ELSE s

RECURSIVE TrimRight(_)
TrimRight(s) ==
    IF s # <<>> /\ IsSpace(s[Len(s)]) THEN TrimRight(SubSeq(s, 1, Len(s) - 1)) ELSE s

\* bytes.TrimSpace
TrimSpace(s) == TrimRight(TrimLeft(s))

\* encoding/json's escape of one byte of a string (printable ASCII and \n)
JSONEscape(b) ==
    IF b = 34 THEN <<92, 34>>                          \* "  ->  \"
    ELSE IF b = 92 THEN <<92, 92>>                     \* \  ->  \\
    ELSE IF b = 10 THEN <<92, 110>>                    \* newline -> \n
    ELSE IF b = 60 THEN <<92, 117, 48, 48, 51, 99>>    \* <  ->  \u003c
    ELSE <<b>>

\* json.Marshal of a string: the escaped bytes between double quotes
JSONMarshal(s) == <<34>> \o Concat([i \in 1..Len(s) |-> JSONEscape(s[i])]) \o <<34>>

\* the literal text "require("
ReqCall == <<114, 101, 113, 117, 105, 114, 101, 40>>

\* ' and "
Quotes == {39, 34}

\* where a match of reFunCall starting at i ends its capture: the positions k of
\* a quote followed by ")" with at least one byte, none a newline, captured
CaptureEnds(c, i) ==
    { k \in (i + Len(ReqCall) + 2)..(Len(c) - 1) :
        /\ c[k] \in Quotes
        /\ c[k + 1] = 41
        /\ \A t \in (i + Len(ReqCall) + 1)..(k - 1) : c[t] # 10 }

\* reFunCall matches at i: require( then a quote then the lazy capture
MatchesAt(c, i) ==
    /\ i + Len(ReqCall) <= Len(c)
    /\ SubSeq(c, i, i + Len(ReqCall) - 1) = ReqCall
    /\ c[i + Len(ReqCall)] \in Quotes
    /\ CaptureEnds(c, i) # {}

Min(S) == CHOOSE x \in S : \A y \in S : x <= y

RECURSIVE FindAllFrom(_, _)
\* reFunCall.FindAllSubmatch: the captures of the non-overlapping matches
FindAllFrom(c, i) ==
    IF i > Len(c) THEN <<>>
    ELSE IF MatchesAt(c, i)
         THEN LET k == Min(CaptureEnds(c, i))
              IN  <<SubSeq(c, i + Len(ReqCall) + 1, k - 1)>> \o FindAllFrom(c, k + 2)
         ELSE FindAllFrom(c, i + 1)

\* ParseRequire: the names in require('...') calls, in order of occurrence
ParseRequire(content) == FindAllFrom(content, 1)

-----------------------------------------------------------------------------
(* Errors and modules. *)

\* a nil error
Nil == [kind |-> "nil", name |-> Empty]

\* errModuleNotFound(name)
errModuleNotFound(name) == [kind |-> "errModuleNotFound", name |-> name]

\* errors.New("module does not have a name")
errModuleMissingName == [kind |-> "errModuleMissingName", name |-> Empty]

\* fmt.Errorf(format, name): a plain error whose text contains name
Errorf(format, name) == [kind |-> format, name |-> name]

\* an error of the file system, the network or the store
IOError(name) == [kind |-> "io", name |-> name]

\* IsNotFound: the error has the dynamic type errModuleNotFound
IsNotFound(err) == err.kind = "errModuleNotFound"

\* no Module (a nil interface value)
NoModule == [kind |-> "nil", name |-> Empty, content |-> Empty]

\* NewModule(name, content): a literalModule
NewModule(name, content) == [kind |-> "literal", name |-> name, content |-> content]

\* NewFileModule(name, filename): content is what reading the file yields
NewFileModule(name, content) == [kind |-> "file", name |-> name, content |-> content]

\* m.Content(): a literalModule returns its bytes; a fileModule reads its file on
\* every call, and the read succeeds (readOK) or fails
ModuleContent(m, readOK) ==
    IF m.kind = "file" /\ ~readOK
    THEN [content |-> Empty, err |-> IOError(m.name)]
    ELSE [content |-> m.content, err |-> Nil]

\* no requirement is ever reported
ModuleRequireNone(m, readOK) == [require |-> <<>>, err |-> Nil]

\* m.Require() (requireFromModule): ParseRequire of the content, or the error of
\* Content()
ModuleRequire(m, readOK) ==
    LET c == ModuleContent(m, readOK)
    IN  IF c.err # Nil THEN [require |-> <<>>, err |-> c.err]
        ELSE [require |-> ParseRequire(c.content), err |-> Nil]

-----------------------------------------------------------------------------
(* Providers. *)

\* CustomProvider.Module
CustomProviderModule(name) ==
    IF name \in DOMAIN modules
    THEN [m |-> modules[name], err |-> Nil]
    ELSE [m |-> NoModule, err |-> Errorf("module %s was not found", name)]

\* dirProvider.Module: a file module for name.js when os.Stat finds a file
dirProviderModule(name) ==
    IF name \in DOMAIN dir /\ dir[name].exists
    THEN [m |-> NewFileModule(name, dir[name].content), err |-> Nil]
    ELSE [m |-> NoModule, err |-> errModuleNotFound(name)]

\* fsProvider.Module: Open and ReadAll of name.js; IsNotExist becomes NotFound,
\* any other error is returned as it is
fsProviderModule(name) ==
    IF name \notin DOMAIN fsys \/ fsys[name].state = "absent"
    THEN [m |-> NoModule, err |-> errModuleNotFound(name)]
    ELSE IF fsys[name].state = "denied"
    THEN [m |-> NoModule, err |-> IOError(name)]
    ELSE [m |-> NewModule(name, fsys[name].content), err |-> Nil]

\* p.Module(name) for a Provider p of App.Providers
ProviderModule(p, name) ==
    IF p = "custom" THEN CustomProviderModule(name)
    ELSE IF p = "dir" THEN dirProviderModule(name)
    ELSE fsProviderModule(name)

RECURSIVE FromProvidersSkipErrors(_, _)
\* every error of a provider, of whatever kind, makes the loop go on
FromProvidersSkipErrors(i, name) ==
    IF i > Len(Providers) THEN [m |-> NoModule, err |-> errModuleNotFound(name)]
    ELSE LET r == ProviderModule(Providers[i], name)
         IN  IF r.err = Nil THEN r ELSE FromProvidersSkipErrors(i + 1, name)

RECURSIVE FromProviders(_, _)
\* App.Module, second loop, from provider i on
FromProviders(i, name) ==
    IF i > Len(Providers) THEN [m |-> NoModule, err |-> errModuleNotFound(name)]
    ELSE LET r == ProviderModule(Providers[i], name)
         IN  IF r.err = Nil THEN r
             ELSE IF IsNotFound(r.err) THEN FromProviders(i + 1, name)
             ELSE [m |-> NoModule, err |-> r.err]

RECURSIVE OwnedFrom(_, _)
OwnedFrom(i, name) ==
    IF i > Len(Modules) THEN [m |-> NoModule, err |-> errModuleNotFound(name)]
    ELSE IF Modules[i].name = name THEN [m |-> Modules[i], err |-> Nil]
    ELSE OwnedFrom(i + 1, name)

\* the fallback providers are asked before the owned modules are scanned
ProvidersFirst(i, name) ==
    IF FromProviders(1, name).err = Nil THEN FromProviders(1, name)
    ELSE OwnedFrom(i, name)

RECURSIVE FromModules(_, _)
\* App.Module, first loop, from owned module i on
FromModules(i, name) ==
    IF i > Len(Modules) THEN FromProviders(1, name)
    ELSE IF Modules[i].name = name THEN [m |-> Modules[i], err |-> Nil]
    ELSE FromModules(i + 1, name)

\* App.Module
AppModule(name) == FromModules(1, name)

-----------------------------------------------------------------------------
(* Packaging and URL minting. *)

RECURSIVE Digest(_, _, _, _)
\* a digest of bytes[lo..hi]: the sum of the bytes, each weighted by its
\* position, mod 16^6
Digest(bytes, k, lo, hi) ==
    IF lo > hi THEN 0
    ELSE IF lo = hi THEN bytes[lo] * (((lo * k) % 251) + 1)
    ELSE LET mid == (lo + hi) \div 2
         IN  (Digest(bytes, k, lo, mid) + Digest(bytes, k, mid + 1, hi)) % 16777216

\* the byte of one hexadecimal digit, lower case (%x)
HexDigit(d) == IF d < 10 THEN 48 + d ELSE 87 + d

RECURSIVE Hex(_, _)
\* n as `digits` hexadecimal digits
Hex(n, digits) ==
    IF digits = 0 THEN <<>> ELSE Hex(n \div 16, digits - 1) \o <<HexDigit(n % 16)>>

\* fmt.Sprintf("%x", sha.Sum(nil)): the digest of the content in hexadecimal.
\* SHA-256 is stood for by two position-weighted sums, twelve digits in all.
Sha256Hex(content) ==
    Hex(Digest(content, 7, 1, Len(content)), 6) \o Hex(Digest(content, 11, 1, Len(content)), 6)

\* the digest cut one digit short
HashKeyShort(content) == SubSeq(Sha256Hex(content), 1, hashLen - 1)

\* the store key of a bundle: the first hashLen digits of its digest
HashKey(content) == SubSeq(Sha256Hex(content), 1, hashLen)

RECURSIVE Clean(_)
\* path.Clean on a path of plain elements: runs of "/" become one "/"
Clean(p) ==
    IF Len(p) < 2 THEN p
    ELSE IF p[1] = 47 /\ p[2] = 47 THEN Clean(Tail(p))
    ELSE <<p[1]>> \o Clean(Tail(p))

RECURSIVE JoinSlash(_)
JoinSlash(elems) ==
    IF elems = <<>> THEN <<>>
    ELSE IF Head(elems) = <<>> THEN JoinSlash(Tail(elems))
    ELSE IF JoinSlash(Tail(elems)) = <<>> THEN Head(elems)
    ELSE Head(elems) \o <<47>> \o JoinSlash(Tail(elems))

\* path.Join: the non-empty elements joined by "/", cleaned
PathJoin(elems) == Clean(JoinSlash(elems))

\* the names of the roots are part of the file name
PackageURLOfRoots(hash) == PathJoin(<<(<<47>>), MountPath, hash \o Concat(roots) \o ext>>)

\* the URL ModulesURL mints for a store key
PackageURL(hash) == PathJoin(<<(<<47>>), MountPath, hash \o ext>>)

\* an error returned by a Transform
TransformError == [kind |-> "TransformError", name |-> Empty]

\* the bytes of s that are not the space character
RECURSIVE Unspaced(_)
Unspaced(s) ==
    IF s = <<>> THEN <<>>
    ELSE IF Head(s) = 32 THEN Unspaced(Tail(s))
    ELSE <<Head(s)>> \o Unspaced(Tail(s))

\* the content is packaged as the module gave it
TransformSkipped(t, content) == [content |-> content, err |-> Nil]

\* a.Transform.Transform(content) when a.Transform is not nil. "min" is a
\* minifier in the manner of JSMin: it drops the spaces and writes a newline in
\* front ("\nfunction foo(){return 1;}"); "strict" is a minifier that rejects
\* input it cannot parse, here content with the byte "x"
ApplyTransform(t, content) ==
    IF t = "nil" THEN [content |-> content, err |-> Nil]
    ELSE IF t = "strict" /\ \E i \in DOMAIN content : content[i] = 120
    THEN [content |-> Empty, err |-> TransformError]
    ELSE [content |-> <<10>> \o Unspaced(content), err |-> Nil]

\* one statement of the bundle: define(<name>,<content>);\n
DefineStmt(name, content) ==
    <<100, 101, 102, 105, 110, 101, 40>> \o JSONMarshal(name) \o <<44>>
        \o JSONMarshal(TrimSpace(content)) \o <<41, 59, 10>>

RECURSIVE Emit(_, _)
\* content's loop over the sorted names l: the statements written, or the first
\* error of a lookup or of Content(); readable holds the names whose file read
\* succeeds this time
Emit(l, readable) ==
    IF l = <<>> THEN [stmts |-> <<>>, err |-> Nil]
    ELSE LET r == AppModule(Head(l))
             c == ModuleContent(r.m, Head(l) \in readable)
             t == ApplyTransform(Transform, c.content)
             rest == Emit(Tail(l), readable)
         IN  IF r.err # Nil THEN [stmts |-> <<>>, err |-> r.err]
             ELSE IF c.err # Nil THEN [stmts |-> <<>>, err |-> c.err]
             ELSE IF t.err # Nil THEN [stmts |-> <<>>, err |-> t.err]
             ELSE IF rest.err # Nil THEN rest
             ELSE [stmts |-> <<DefineStmt(r.m.name, t.content)>> \o rest.stmts,
                   err |-> Nil]

-----------------------------------------------------------------------------
(* The configurations the App starts in. *)

\* script text with one require call per name of l, in either quote style,
\* between surrounding white space
Requiring(l) ==
    <<32>> \o Concat([i \in 1..Len(l) |->
                IF i % 2 = 1 THEN ReqCall \o <<39>> \o l[i] \o <<39, 41, 10>>
                             ELSE ReqCall \o <<34>> \o l[i] \o <<34, 41, 10>>])

File(content) == [exists |-> TRUE, content |-> content]
Absent == [exists |-> FALSE, content |-> Empty]

\* a/foo requires bar and b/baz, b/baz requires bar (the _test directory)
DirTree == (NA :> File(Requiring(<<NC, NAB>>))) @@ (NAB :> File(Requiring(<<NC>>)))
             @@ (NBC :> Absent) @@ (NC :> File(<<99>>))

\* a cycle a -> ab -> a, a self-require of ab, and a missing c below bc
DirCycle == (NA :> File(Requiring(<<NAB>>))) @@ (NAB :> File(Requiring(<<NA, NAB>>)))
              @@ (NBC :> File(Requiring(<<NC>>))) @@ (NC :> Absent)

\* a chain a -> ab -> bc -> c
DirChain == (NA :> File(Requiring(<<NAB>>))) @@ (NAB :> File(Requiring(<<NBC>>)))
              @@ (NBC :> File(Requiring(<<NC>>))) @@ (NC :> File(<<120, 10>>))

FsNone == [n \in Names |-> [state |-> "absent", content |-> Empty]]

\* bc is a readable file, c cannot be opened
FsMixed == (NA :> [state |-> "absent", content |-> Empty])
             @@ (NAB :> [state |-> "absent", content |-> Empty])
             @@ (NBC :> [state |-> "file", content |-> <<121>>])
             @@ (NC :> [state |-> "denied", content |-> Empty])

\* an empty Go map
EmptyMap == [k \in {} |-> Empty]

\* the App as configured at start-up: owned modules, fallback providers, what
\* the directory and the file system hold, what the CustomProvider was given,
\* the Transform
Configurations ==
    { [Modules |-> <<>>, Providers |-> <<"dir">>, dir |-> DirTree, fsys |-> FsNone,
       modules |-> EmptyMap, Transform |-> "nil"],
      [Modules |-> <<>>, Providers |-> <<"custom", "dir">>, dir |-> DirCycle,
       fsys |-> FsNone, modules |-> (NC :> NewModule(NC, <<49>>)), Transform |-> "nil"],
      [Modules |-> <<NewModule(NAB, <<111>>)>>, Providers |-> <<"dir", "custom">>,
       dir |-> DirCycle, fsys |-> FsNone, modules |-> (NC :> NewModule(NC, <<49>>)), Transform |-> "nil"],
      [Modules |-> <<NewModule(NA, Requiring(<<NBC>>)), NewModule(NA, <<120>>)>>,
       Providers |-> <<"fs", "dir">>, dir |-> DirChain, fsys |-> FsMixed,
       modules |-> EmptyMap, Transform |-> "nil"],
      [Modules |-> <<>>, Providers |-> <<"dir", "fs">>, dir |-> DirChain,
       fsys |-> FsMixed, modules |-> EmptyMap, Transform |-> "nil"],
      [Modules |-> <<NewModule(NC, <<111>>)>>, Providers |-> <<>>, dir |-> DirTree,
       fsys |-> FsNone, modules |-> EmptyMap, Transform |-> "nil"],
      [Modules |-> <<>>, Providers |-> <<"dir">>, dir |-> DirCycle, fsys |-> FsNone,
       modules |-> EmptyMap, Transform |-> "nil"],
      [Modules |-> <<NewModule(NC, <<32, 111, 32, 107, 10>>)>>, Providers |-> <<"dir">>,
       dir |-> DirTree, fsys |-> FsNone, modules |-> EmptyMap, Transform |-> "min"],
      [Modules |-> <<NewModule(NBC, <<120>>)>>, Providers |-> <<"dir">>,
       dir |-> DirCycle, fsys |-> FsNone, modules |-> EmptyMap,
       Transform |-> "strict"] }

\* the modules handed to CustomProvider.Add
AddModules ==
    { NewModule(Empty, <<120>>), NewModule(NC, <<49>>), NewModule(NC, <<50>>),
      NewModule(NBC, Requiring(<<NC>>)) }

\* the root-name lists handed to ModulesURL: none, single roots, two roots in
\* either order, two lists with the same concatenation, a repeated root
RootLists ==
    { <<>>, <<NA>>, <<NBC>>, <<NC>>, <<NA, NAB>>, <<NAB, NA>>, <<NAB, NC>>,
      <<NA, NBC>>, <<NC, NC>> }

\* the root-name lists of the pages whose bundles are then requested
WebRootLists == { <<>>, <<NA>>, <<NC>>, <<NAB, NC>> }

\* what an operation returned: its error, and the URL (ModulesURL) or the module
\* (Module, Add); built and stmts record that content() returned a bundle, and
\* the statements of that bundle
NoRet == [op |-> "none", name |-> Empty, url |-> Empty, err |-> Nil, m |-> NoModule,
          built |-> FALSE, stmts |-> <<>>, bytes |-> Empty]

\* a ResponseWriter nothing was written to: no status line sent, no header
\* set, an empty body; gets counts the calls of ContentStore.Get
NoResponse == [path |-> Empty, wroteHeader |-> FALSE, status |-> 0,
               header |-> Empty, sentHeader |-> Empty, body |-> Empty,
               writeHeaders |-> <<>>, gets |-> 0, getErr |-> FALSE]

\* nothing thrown
NoThrow == [kind |-> "none", name |-> Empty]

\* no loader call made yet: the call, its name, what it threw, the key of the
\* module record whose exports it returned, and whether require found the
\* module instantiated (if (m) return m.exports)
NoCall == [op |-> "none", name |-> Empty, thrown |-> NoThrow, exports |-> Empty,
           cached |-> FALSE]

\* the goroutines net/http starts, one per request
\* nothing rendered yet
NoHTML == [rendered |-> FALSE, calls |-> <<>>, inline |-> Empty, src |-> Empty,
           err |-> Nil]

\* a nil []byte
NilBytes == [isNil |-> TRUE, bytes |-> Empty]

\* no call of the urlModule made yet
NoURLReturn == [op |-> "none", content |-> NilBytes, require |-> <<>>, err |-> Nil]

\* the bodies the URL can serve: none is the beginning of another
Bodies == { <<49>>, <<50, 51>>, <<32>> \o ReqCall \o <<39>> \o NC \o <<39, 41>> }

Goroutines == 1..MaxGoroutines

\* a goroutine that has not been handed a request
IdleGoroutine == [pc |-> "idle", op |-> "none", roots |-> <<>>, path |-> Empty,
                  content |-> Empty, url |-> Empty, err |-> Nil, wrote |-> FALSE]

Init ==
    /\ \E c \in Configurations :
          /\ Modules = c.Modules
          /\ Providers = c.Providers
          /\ dir = c.dir
          /\ fsys = c.fsys
          /\ modules = c.modules
          /\ Transform = c.Transform
    /\ packageURLs = EmptyMap
    /\ data = EmptyMap
    /\ pc = "idle"
    /\ roots = <<>>
    /\ set = {}
    /\ names = <<>>
    /\ stack = <<>>
    /\ lookups = <<>>
    /\ failed = {}
    /\ ret = NoRet
    /\ calls = 0
    /\ packaged = EmptyMap
    /\ minted = EmptyMap
    /\ prelude = Empty
    /\ resp = NoResponse
    /\ gor = [g \in Goroutines |-> IdleGoroutine]
    /\ cacheNil = TRUE
    /\ fatal = FALSE
    /\ _payloads = EmptyMap
    /\ _modules = EmptyMap
    /\ _execute = <<>>
    /\ _schedule = FALSE
    /\ runs = EmptyMap
    /\ invoked = <<>>
    /\ issued = 0
    /\ js = NoCall
    /\ html = NoHTML
    /\ remote = <<49>>
    /\ urlm = NilBytes
    /\ fetches = 0
    /\ uret = NoURLReturn

config == <<Modules, Providers, dir, fsys, Transform>>

-----------------------------------------------------------------------------
(* App.ModulesURL, in three positions: the cache lookup (ModulesURL), the      *)
(* recursion of buildDeps, one loop iteration or return at a time (BuildDeps:  *)
(* when the outermost activation returns nil, content gathers the names of the *)
(* map and sorts them), and the rest of content with the store and the cache   *)
(* write (Content).                                                            *)

\* the cache is never found to hold the key
CachedURLMiss(key) == Empty

\* a.packageURLs[key]: the zero value "" for a missing key
CachedURL(key) == IF key \in DOMAIN packageURLs THEN packageURLs[key] ELSE Empty

ModulesURL(ms) ==
    /\ pc = "idle"
    /\ calls < MaxCalls
    /\ calls' = calls + 1
    /\ roots' = ms
    /\ set' = {}
    /\ names' = <<>>
    /\ lookups' = <<>>
    /\ failed' = {}
    /\ LET key == Concat(ms)
           url == CachedURL(key)
       IN  \/ /\ url # Empty
              /\ ret' = [NoRet EXCEPT !.op = "ModulesURL", !.url = url]
              /\ UNCHANGED <<pc, stack>>
           \/ /\ url = Empty
              /\ pc' = "buildDeps"
              /\ stack' = <<[require |-> ms, ix |-> 1]>>
              /\ ret' = [NoRet EXCEPT !.op = "running"]
    /\ UNCHANGED <<others, config, modules, packageURLs, data, packaged, minted>>

\* the visited set is never consulted
SeenNever(name) == FALSE

\* buildDeps: if set[name] { continue }
Seen(name) == name \in set

\* ModulesURL's return when content returns an error
ReturnError(err) == [NoRet EXCEPT !.op = "ModulesURL", !.err = err]

BuildDeps ==
    /\ pc = "buildDeps"
    /\ LET top == stack[Len(stack)]
           callers == SubSeq(stack, 1, Len(stack) - 1)
           name == top.require[top.ix]
       IN  \/ \* the range loop is over: this activation returns nil
              /\ top.ix > Len(top.require)
              /\ stack' = callers
              /\ IF callers = <<>>
                 THEN \* back in content: range over the map, sort.Strings(names)
                      /\ pc' = "content"
                      /\ \E order \in MapOrders(set) : names' = SortStrings(order)
                 ELSE UNCHANGED <<pc, names>>
              /\ UNCHANGED <<set, lookups, failed, ret>>
           \/ \* a visited name is skipped
              /\ top.ix <= Len(top.require)
              /\ Seen(name)
              /\ stack' = callers \o <<[top EXCEPT !.ix = @ + 1]>>
              /\ UNCHANGED <<pc, set, names, lookups, failed, ret>>
           \/ \* a new name is marked, looked up, and its requirements descended into
              /\ top.ix <= Len(top.require)
              /\ ~Seen(name)
              /\ set' = set \cup {name}
              /\ lookups' = Append(lookups, name)
              /\ UNCHANGED names
              /\ \E readOK \in BOOLEAN :
                    LET r == AppModule(name)
                        d == IF r.err # Nil THEN [require |-> <<>>, err |-> r.err]
                             ELSE ModuleRequire(r.m, readOK)
                    IN  IF d.err # Nil
                        THEN \* this activation returns the error; only the outermost
                             \* caller (content) looks at it
                             /\ failed' = failed \cup {name}
                             /\ stack' = callers
                             /\ pc' = IF callers = <<>> THEN "idle" ELSE "buildDeps"
                             /\ ret' = IF callers = <<>> THEN ReturnError(d.err) ELSE ret
                        ELSE /\ stack' = callers \o <<[top EXCEPT !.ix = @ + 1],
                                                       [require |-> d.require, ix |-> 1]>>
                             /\ UNCHANGED <<pc, failed, ret>>
    /\ UNCHANGED <<others, config, modules, packageURLs, data, roots, calls, packaged,
                   minted>>

\* the names of S that App.Module resolves to a file-backed module
FileNames(S) == { n \in S : AppModule(n).m.kind = "file" }

\* the URL is cached whether or not the store took the bundle
CacheAlways(err, key, url) == (key :> url) @@ packageURLs

\* ModulesURL after ContentStore.Store: a.packageURLs[key] = url is reached only
\* when Store returned no error
CacheAfter(err, key, url) ==
    IF err # Nil THEN packageURLs ELSE (key :> url) @@ packageURLs

Content ==
    /\ pc = "content"
    /\ pc' = "idle"
    /\ \E readable \in SUBSET FileNames(set), storeOK \in BOOLEAN :
          LET out == Emit(names, readable)
              content == Concat(out.stmts)
              hash == HashKey(content)
              url == PackageURL(hash)
          IN  IF out.err # Nil
              THEN /\ ret' = ReturnError(out.err)
                   /\ UNCHANGED <<packageURLs, data, packaged, minted>>
              ELSE /\ packaged' =
                        IF failed # {} THEN packaged
                        ELSE IF roots \in DOMAIN packaged
                        THEN [packaged EXCEPT ![roots].times = @ + 1]
                        ELSE (roots :> [stmts |-> out.stmts, times |-> 1]) @@ packaged
                   /\ IF ~storeOK
                      THEN /\ ret' = [ReturnError(IOError(hash)) EXCEPT
                                        !.built = TRUE, !.stmts = out.stmts]
                           /\ packageURLs' = CacheAfter(IOError(hash), Concat(roots), url)
                           /\ UNCHANGED <<data, minted>>
                      ELSE /\ minted' = IF roots \in DOMAIN minted THEN minted
                                        ELSE (roots :> [url |-> url, content |-> content]) @@ minted
                           /\ data' = (hash :> content) @@ data
                           /\ packageURLs' = CacheAfter(Nil, Concat(roots), url)
                           /\ ret' = [NoRet EXCEPT !.op = "ModulesURL", !.url = url,
                                                   !.built = TRUE, !.stmts = out.stmts]
    /\ UNCHANGED <<others, config, modules, roots, set, names, stack, lookups, failed, calls>>

-----------------------------------------------------------------------------
(* The provider operations. *)

\* App.Module(name)
Module(name) ==
    /\ pc = "idle"
    /\ LET r == AppModule(name)
       IN  ret' = [NoRet EXCEPT !.op = "Module", !.name = name, !.m = r.m, !.err = r.err]
    /\ UNCHANGED <<others, config, modules, packageURLs, data, pc, roots, set, names, stack, lookups,
                   failed, calls, packaged, minted>>

\* a registered name is registered again, replacing the module
AddOverwrite(m) ==
    IF m.name = Empty THEN [modules |-> modules, err |-> errModuleMissingName]
    ELSE [modules |-> (m.name :> m) @@ modules, err |-> Nil]

\* CustomProvider.Add: the mapping after the call and the error returned
AddResult(m) ==
    IF m.name = Empty THEN [modules |-> modules, err |-> errModuleMissingName]
    ELSE IF m.name \in DOMAIN modules
    THEN [modules |-> modules, err |-> Errorf("module %s already exists", m.name)]
    ELSE [modules |-> (m.name :> m) @@ modules, err |-> Nil]

Add(m) ==
    /\ pc = "idle"
    /\ LET r == AddResult(m)
       IN  /\ modules' = r.modules
           /\ ret' = [NoRet EXCEPT !.op = "Add", !.name = m.name, !.m = m, !.err = r.err]
    /\ UNCHANGED <<others, config, packageURLs, data, pc, roots, set, names, stack, lookups, failed,
                   calls, packaged, minted>>

\* CustomProvider.Module(name), called directly
CustomModule(name) ==
    /\ pc = "idle"
    /\ LET r == CustomProviderModule(name)
       IN  ret' = [NoRet EXCEPT !.op = "CustomProvider.Module", !.name = name,
                               !.m = r.m, !.err = r.err]
    /\ UNCHANGED <<others, config, modules, packageURLs, data, pc, roots, set, names, stack, lookups,
                   failed, calls, packaged, minted>>

-----------------------------------------------------------------------------
(* The bundle server and the prelude. *)

\* path.Base on a path: "." for the empty path, trailing slashes dropped, then
\* what follows the last slash; "/" for a path of slashes only
RECURSIVE DropTrailingSlashes(_)
DropTrailingSlashes(p) ==
    IF p # <<>> /\ p[Len(p)] = 47 THEN DropTrailingSlashes(SubSeq(p, 1, Len(p) - 1))
    ELSE p

Base(p) ==
    IF p = <<>> THEN <<46>>
    ELSE LET q == DropTrailingSlashes(p)
             slashes == { i \in DOMAIN q : q[i] = 47 }
         IN  IF q = <<>> THEN <<47>>
             ELSE IF slashes = {} THEN q
             ELSE SubSeq(q, (CHOOSE i \in slashes : \A j \in slashes : j <= i) + 1, Len(q))

\* "invalid url\n"
InvalidURLText == <<105, 110, 118, 97, 108, 105, 100, 32, 117, 114, 108, 10>>
\* "not found\n"
NotFoundText == <<110, 111, 116, 32, 102, 111, 117, 110, 100, 10>>
\* "error retriving package from store\n"
StoreErrorText ==
    <<101, 114, 114, 111, 114, 32, 114, 101, 116, 114, 105, 118, 105, 110, 103, 32,
      112, 97, 99, 107, 97, 103, 101, 32, 102, 114, 111, 109, 32, 115, 116, 111,
      114, 101, 10>>
\* "text/javascript"
TextJavascript ==
    <<116, 101, 120, 116, 47, 106, 97, 118, 97, 115, 99, 114, 105, 112, 116>>

\* http.ResponseWriter.WriteHeader: the first call sends the status line and
\* the headers set so far; a later call is superfluous and changes nothing
WriteHeader(w, code) ==
    IF w.wroteHeader THEN [w EXCEPT !.writeHeaders = Append(@, code)]
    ELSE [w EXCEPT !.wroteHeader = TRUE, !.status = code, !.sentHeader = w.header,
                   !.writeHeaders = Append(@, code)]

\* http.ResponseWriter.Write: sends status 200 first when no status was sent,
\* then appends the bytes to the body
Write(w, bytes) ==
    LET w1 == IF w.wroteHeader THEN w
              ELSE [w EXCEPT !.wroteHeader = TRUE, !.status = 200, !.sentHeader = w.header]
    IN  [w1 EXCEPT !.body = @ \o bytes]

\* w.Header().Add("Content-Type", value)
HeaderAdd(w, value) == [w EXCEPT !.header = value]

\* memoryStore.Get: the stored bytes, nil for a missing key (the only empty
\* value ever stored is the nil slice of the empty bundle)
StoreGet(key) == IF key \in DOMAIN data THEN data[key] ELSE Empty

\* every basename is taken for a key
WellFormedAlways(name) == TRUE

\* ServeHTTP: nameLen == hashLen+extLen
WellFormed(name) == Len(name) = hashLen + extLen

\* ServeHTTP(w, r) for a request of path p: what the handler wrote to w. getOK
\* is whether ContentStore.Get succeeds, withBytes whether a failing Get hands
\* back the stored bytes along with its error
ServeResponse(p, getOK, withBytes) ==
    LET name == Base(p)
        w0 == [NoResponse EXCEPT !.path = p]
    IN  IF ~WellFormed(name)
        THEN Write(WriteHeader(w0, 404), InvalidURLText)
        ELSE LET key == SubSeq(name, 1, Len(name) - extLen)
                 content == IF getOK \/ withBytes THEN StoreGet(key) ELSE Empty
                 w1 == [w0 EXCEPT !.gets = 1, !.getErr = ~getOK]
                 w2 == IF getOK THEN w1
                       ELSE Write(WriteHeader(w1, 500), StoreErrorText)
             IN  \* the block answering the store error has no return: the handler
                 \* goes on to the test of content
                 IF content = Empty
                 THEN Write(WriteHeader(w2, 404), NotFoundText)
                 ELSE Write(WriteHeader(HeaderAdd(w2, TextJavascript), 200), content)

\* "/r/x.js": a basename shorter than a key with its extension
ShortPath == <<47>> \o MountPath \o <<47, 120>> \o ext
\* "/r/zzzzzzz.js": a basename of the right length that is no key of the store
AbsentPath == <<47>> \o MountPath \o <<47, 122, 122, 122, 122, 122, 122, 122>> \o ext

\* the path with its last extLen bytes replaced by "xyz"
OtherSuffix(p) == SubSeq(p, 1, Len(p) - extLen) \o <<120, 121, 122>>

\* the paths requested: the URLs minted so far, and the two above
RequestPaths ==
    {ShortPath, AbsentPath} \cup { packageURLs[k] : k \in DOMAIN packageURLs }
        \cup { OtherSuffix(packageURLs[k]) : k \in DOMAIN packageURLs }

ServeHTTP(p) ==
    /\ pc = "idle"
    /\ \E getOK, withBytes \in BOOLEAN :
          /\ (getOK => ~withBytes)
          /\ resp' = ServeResponse(p, getOK, withBytes)
    /\ UNCHANGED <<aside, conc, loader, config, modules, packageURLs, data, pc, roots, set, names, stack,
                   lookups, failed, ret, calls, packaged, minted, prelude>>

\* Prelude(): the loader runtime as require_js.go minifies it; these bytes
\* stand for its text
PreludeText ==
    <<40, 102, 117, 110, 99, 116, 105, 111, 110, 40, 101, 120, 112, 111, 114, 116,
      115, 41, 32, 123, 125, 41, 40, 116, 104, 105, 115, 41>>

\* App.Prelude: the prelude with Transform applied, computed on the first call
\* and kept in a.prelude
Prelude ==
    /\ pc = "idle"
    /\ IF prelude = Empty
       THEN LET t == ApplyTransform(Transform, PreludeText)
            IN  IF t.err # Nil
                THEN /\ ret' = [NoRet EXCEPT !.op = "Prelude", !.err = t.err]
                     /\ UNCHANGED prelude
                ELSE /\ prelude' = t.content
                     /\ ret' = [NoRet EXCEPT !.op = "Prelude", !.bytes = t.content]
       ELSE /\ ret' = [NoRet EXCEPT !.op = "Prelude", !.bytes = prelude]
            /\ UNCHANGED prelude
    /\ UNCHANGED <<aside, conc, loader, config, modules, packageURLs, data, pc, roots, set, names, stack,
                   lookups, failed, calls, packaged, minted, resp>>

\* the App minting bundle URLs
Next ==
    \/ \E ms \in RootLists : ModulesURL(ms)
    \/ BuildDeps
    \/ Content

Spec == Init /\ [][Next]_vars

\* the App minting bundle URLs, serving them and handing out its prelude
WebNext ==
    \/ \E ms \in WebRootLists : ModulesURL(ms)
    \/ BuildDeps
    \/ Content
    \/ \E p \in RequestPaths : ServeHTTP(p)
    \/ Prelude

WebSpec == Init /\ [][WebNext]_vars

-----------------------------------------------------------------------------
(* Concurrent requests: net/http runs each handler in a goroutine of its own, *)
(* and the handlers call ModulesURL and ServeHTTP on the one App. The code    *)
(* takes no lock, so a goroutine can be preempted between any two accesses of *)
(* the shared maps; each action below is one such access.                     *)

RECURSIVE BuildDepsAll(_, _)
\* buildDeps(require, set) run in one piece with every read succeeding: the
\* set as the call leaves it and the error it returns (the error of a nested
\* call is dropped)
BuildDepsAll(require, seen) ==
    IF require = <<>> THEN [set |-> seen, err |-> Nil]
    ELSE IF Head(require) \in seen THEN BuildDepsAll(Tail(require), seen)
    ELSE LET r == AppModule(Head(require))
             seen1 == seen \cup {Head(require)}
             d == IF r.err # Nil THEN [require |-> <<>>, err |-> r.err]
                  ELSE ModuleRequire(r.m, TRUE)
         IN  IF d.err # Nil THEN [set |-> seen1, err |-> d.err]
             ELSE BuildDepsAll(Tail(require), BuildDepsAll(d.require, seen1).set)

\* content(modules) run in one piece: it touches no state the goroutines share
ContentAll(ms) ==
    LET deps == BuildDepsAll(ms, {})
        sorted == SortStrings(CHOOSE order \in MapOrders(deps.set) : TRUE)
        out == Emit(sorted, deps.set)
    IN  IF deps.err # Nil THEN [content |-> Empty, err |-> deps.err]
        ELSE [content |-> Concat(out.stmts), err |-> out.err]

\* the state of the sequential App that the goroutines do not touch
sequential == <<web, aside, config, modules, pc, roots, set, names, stack, lookups, failed,
                ret, calls, packaged, minted>>

\* the root lists of the pages requested at the same time
ConcRootLists == { <<NA>>, <<NC>>, <<NBC>> }

\* a request arrives whose handler calls ModulesURL(ms)
GoModulesURL(g, ms) ==
    /\ ~fatal /\ gor[g].pc = "idle"
    /\ gor' = [gor EXCEPT ![g] = [IdleGoroutine EXCEPT !.pc = "readCache",
                                    !.op = "ModulesURL", !.roots = ms]]
    /\ UNCHANGED <<packageURLs, data, cacheNil, fatal, sequential, loader>>

\* url := a.packageURLs[key]; a hit returns
GoReadCache(g) ==
    /\ ~fatal /\ gor[g].pc = "readCache"
    /\ LET url == CachedURL(Concat(gor[g].roots))
       IN  gor' = [gor EXCEPT ![g].pc = IF url # Empty THEN "done" ELSE "content",
                              ![g].url = url]
    /\ UNCHANGED <<packageURLs, data, cacheNil, fatal, sequential, loader>>

\* content, err := a.content(modules)
GoContent(g) ==
    /\ ~fatal /\ gor[g].pc = "content"
    /\ LET c == ContentAll(gor[g].roots)
       IN  gor' = [gor EXCEPT ![g].pc = IF c.err # Nil THEN "done" ELSE "store",
                              ![g].content = c.content, ![g].err = c.err]
    /\ UNCHANGED <<packageURLs, data, cacheNil, fatal, sequential, loader>>

\* a.ContentStore.Store(hash, content) on the memoryStore: s.data[key] = value
GoStore(g) ==
    /\ ~fatal /\ gor[g].pc = "store"
    /\ data' = (HashKey(gor[g].content) :> gor[g].content) @@ data
    /\ gor' = [gor EXCEPT ![g].pc = "checkNil",
                           ![g].url = PackageURL(HashKey(gor[g].content))]
    /\ UNCHANGED <<packageURLs, cacheNil, fatal, sequential, loader>>

\* if a.packageURLs == nil
GoCheckNil(g) ==
    /\ ~fatal /\ gor[g].pc = "checkNil"
    /\ gor' = [gor EXCEPT ![g].pc = IF cacheNil THEN "make" ELSE "write"]
    /\ UNCHANGED <<packageURLs, data, cacheNil, fatal, sequential, loader>>

\* a.packageURLs = make(map[string]string): the field now names a new, empty map
GoMake(g) ==
    /\ ~fatal /\ gor[g].pc = "make"
    /\ packageURLs' = EmptyMap
    /\ cacheNil' = FALSE
    /\ gor' = [gor EXCEPT ![g].pc = "write"]
    /\ UNCHANGED <<data, fatal, sequential, loader>>

\* a.packageURLs[key] = url; return url, nil
GoWrite(g) ==
    /\ ~fatal /\ gor[g].pc = "write"
    /\ packageURLs' = (Concat(gor[g].roots) :> gor[g].url) @@ packageURLs
    /\ gor' = [gor EXCEPT ![g].pc = "done", ![g].wrote = TRUE]
    /\ UNCHANGED <<data, cacheNil, fatal, sequential, loader>>

\* a request for path p arrives: ServeHTTP up to the call of ContentStore.Get
GoServeHTTP(g, p) ==
    /\ ~fatal /\ gor[g].pc = "idle"
    /\ gor' = [gor EXCEPT ![g] = [IdleGoroutine EXCEPT !.op = "ServeHTTP", !.path = p,
                                    !.pc = IF WellFormed(Base(p)) THEN "get" ELSE "done"]]
    /\ UNCHANGED <<packageURLs, data, cacheNil, fatal, sequential, loader>>

\* memoryStore.Get: return s.data[key], nil; the handler then writes its response
GoGet(g) ==
    /\ ~fatal /\ gor[g].pc = "get"
    /\ gor' = [gor EXCEPT ![g].pc = "done",
                           ![g].content = ServeResponse(gor[g].path, TRUE, FALSE).body]
    /\ UNCHANGED <<packageURLs, data, cacheNil, fatal, sequential, loader>>

\* the map a goroutine's next step accesses, and whether it writes it
NextAccess(g) ==
    CASE gor[g].pc = "readCache" -> [map |-> "packageURLs", write |-> FALSE]
      [] gor[g].pc = "checkNil"  -> [map |-> "packageURLs", write |-> FALSE]
      [] gor[g].pc = "make"      -> [map |-> "packageURLs", write |-> TRUE]
      [] gor[g].pc = "write"     -> [map |-> "packageURLs", write |-> TRUE]
      [] gor[g].pc = "store"     -> [map |-> "data", write |-> TRUE]
      [] gor[g].pc = "get"       -> [map |-> "data", write |-> FALSE]
      [] OTHER                   -> [map |-> "none", write |-> FALSE]

\* g and h are about to access the same map, one of them writing, and nothing
\* orders the two accesses: a data race
Race(g, h) ==
    /\ g # h
    /\ NextAccess(g).map # "none"
    /\ NextAccess(g).map = NextAccess(h).map
    /\ NextAccess(g).write \/ NextAccess(h).write

\* a racing map access is undefined: besides every interleaving of the two
\* accesses, the runtime may detect it and end the process
Fatal ==
    /\ ~fatal
    /\ \E g, h \in Goroutines : Race(g, h)
    /\ fatal' = TRUE
    /\ UNCHANGED <<gor, packageURLs, data, cacheNil, sequential, loader>>

ConcNext ==
    \/ \E g \in Goroutines, ms \in ConcRootLists : GoModulesURL(g, ms)
    \/ \E g \in Goroutines : GoReadCache(g)
    \/ \E g \in Goroutines : GoContent(g)
    \/ \E g \in Goroutines : GoStore(g)
    \/ \E g \in Goroutines : GoCheckNil(g)
    \/ \E g \in Goroutines : GoMake(g)
    \/ \E g \in Goroutines : GoWrite(g)
    \/ \E g \in Goroutines, p \in RequestPaths : GoServeHTTP(g, p)
    \/ \E g \in Goroutines : GoGet(g)
    \/ Fatal

\* the App of the tests: the _test directory behind a dirProvider
ConcInit == Init /\ Modules = <<>> /\ Providers = <<"dir">> /\ dir = DirTree
                 /\ Transform = "nil"

ConcSpec == ConcInit /\ [][ConcNext]_vars

-----------------------------------------------------------------------------
(* The loader runtime of the prelude. define and require are the functions of  *)
(* require_js.go. A payload is the script text of a define statement: running  *)
(* it performs its require('...') calls in order and then sets its exports.    *)
(* execute, the pending-call queue and the deferred flush are not in           *)
(* require_js.go; they follow the description of the loader runtime.           *)

\* function key(name): '_n_' + name
Key(name) == <<95, 110, 95>> \o name

\* "exports.f=1": a module exporting f
PayF == <<101, 120, 112, 111, 114, 116, 115, 46, 102, 61, 49>>
\* "exports.f=2": another text exporting f
PayF2 == <<101, 120, 112, 111, 114, 116, 115, 46, 102, 61, 50>>
\* "exports.g=1"
PayG == <<101, 120, 112, 111, 114, 116, 115, 46, 103, 61, 49>>
\* "q", a name no script defines
NQ == <<113>>

\* a key not in a map reads as undefined; the empty string is as falsy
Falsy(map, k) == k \notin DOMAIN map \/ map[k] = Empty

\* new Function('require', 'exports', 'module', fn) throws a SyntaxError for a
\* text that does not parse; here a text whose parentheses do not pair up
Parses(fn) ==
    Cardinality({ i \in DOMAIN fn : fn[i] = 40 }) = Cardinality({ i \in DOMAIN fn : fn[i] = 41 })

\* the names a payload text assigns on exports: the x of every ".x="
ExportsOf(fn) ==
    { fn[i] : i \in { j \in 2..(Len(fn) - 1) : fn[j - 1] = 46 /\ fn[j + 1] = 61 } }

\* undefined is returned for a name that is not there
NotFoundIgnored(name) == NoThrow

\* throw 'module ' + name + ' not found'
NotFoundThrown(name) == [kind |-> "not found", name |-> name]

\* a map without key k (delete map[k])
Delete(map, k) == [x \in DOMAIN map \ {k} |-> map[x]]

\* the payload is left in _payloads when the module is instantiated
DeleteNothing(map, k) == map

\* delete _payloads[k]
DeletePayload(map, k) == Delete(map, k)

RECURSIVE RequireIn(_, _)
RECURSIVE RunBody(_, _)

\* the record is stored in _modules only after the payload has run
RequireInRecordsLate(name, st) ==
    LET k == Key(name)
    IN  IF k \in DOMAIN st.modules
        THEN [st |-> st, thrown |-> NoThrow, exports |-> k]
        ELSE IF Falsy(st.payloads, k)
        THEN [st |-> st, thrown |-> NotFoundThrown(name), exports |-> Empty]
        ELSE LET fn == st.payloads[k]
                 deleted == [st EXCEPT !.payloads = DeletePayload(st.payloads, k),
                                       !.runs = (k :> (IF k \in DOMAIN @ THEN @[k] ELSE 0) + 1) @@ @]
                 body == RunBody(ParseRequire(fn), deleted)
             IN  IF ~Parses(fn)
                 THEN [st |-> deleted, thrown |-> [kind |-> "SyntaxError", name |-> name],
                       exports |-> Empty]
                 ELSE IF body.thrown # NoThrow
                 THEN [st |-> body.st, thrown |-> body.thrown, exports |-> Empty]
                 ELSE [st |-> [body.st EXCEPT
                                 !.modules = (k :> [name |-> name, exports |-> ExportsOf(fn)]) @@ @],
                       thrown |-> NoThrow, exports |-> k]

\* require(name) in loader state st = [payloads, modules, runs]: the state
\* after the call, what it threw, and the key of the record whose exports it
\* returned. Requires made by a payload while it runs are calls of the same
\* function.
RequireIn(name, st) ==
    LET k == Key(name)
    IN  IF k \in DOMAIN st.modules
        THEN [st |-> st, thrown |-> NoThrow, exports |-> k]
        ELSE IF Falsy(st.payloads, k)
        THEN [st |-> st, thrown |-> NotFoundThrown(name), exports |-> Empty]
        ELSE LET fn == st.payloads[k]
                 deleted == [st EXCEPT !.payloads = DeletePayload(st.payloads, k)]
                 recorded == [deleted EXCEPT
                                !.modules = (k :> [name |-> name, exports |-> {}]) @@ @,
                                !.runs = (k :> (IF k \in DOMAIN @ THEN @[k] ELSE 0) + 1) @@ @]
                 body == RunBody(ParseRequire(fn), recorded)
             IN  IF ~Parses(fn)
                 THEN [st |-> deleted, thrown |-> [kind |-> "SyntaxError", name |-> name],
                       exports |-> Empty]
                 ELSE IF body.thrown # NoThrow
                 THEN [st |-> body.st, thrown |-> body.thrown, exports |-> Empty]
                 ELSE [st |-> [body.st EXCEPT !.modules[k].exports = ExportsOf(fn)],
                       thrown |-> NoThrow, exports |-> k]

\* fn.call(exports, require, m.exports, m): the requires of the body, in order
RunBody(reqs, st) ==
    IF reqs = <<>> THEN [st |-> st, thrown |-> NoThrow]
    ELSE CHOOSE b \in { IF r.thrown # NoThrow THEN [st |-> r.st, thrown |-> r.thrown]
                         ELSE RunBody(Tail(reqs), r.st) :
                         r \in { RequireIn(Head(reqs), st) } } : TRUE

\* the loader state as one record
LoaderState == [payloads |-> _payloads, modules |-> _modules, runs |-> runs]

\* a name counts as defined only while its payload is pending
DefinedPendingOnly(k) == k \in DOMAIN _payloads

\* define: k in _payloads || k in _modules
Defined(k) == k \in DOMAIN _payloads \/ k \in DOMAIN _modules

\* the payload is stored without looking at either map
DefineUnchecked(name, payload) ==
    [payloads |-> (Key(name) :> payload) @@ _payloads, thrown |-> NoThrow]

\* define(name, payload): the payloads after the call and what it threw
DefineResult(name, payload) ==
    IF Defined(Key(name))
    THEN [payloads |-> _payloads,
          thrown |-> [kind |-> "already defined", name |-> name]]
    ELSE [payloads |-> (Key(name) :> payload) @@ _payloads, thrown |-> NoThrow]

\* the define statements a bundle script may run: c exports f, a and ab
\* require each other, bc is empty, does not parse, or requires q
DefineCalls ==
    { <<NC, PayF>>, <<NC, PayF2>>,
      <<NA, Requiring(<<NAB>>) \o PayG>>, <<NAB, Requiring(<<NA, NC>>)>>,
      <<NBC, Empty>>, <<NBC, <<40>> >>, <<NBC, Requiring(<<NQ>>)>> }

\* a define that stored its payload schedules a flush of the queue
ScheduleOnDefine(thrown) == IF thrown = NoThrow THEN TRUE ELSE _schedule

\* define(name, payload)
Define(name, payload) ==
    /\ LET r == DefineResult(name, payload)
       IN  /\ _payloads' = r.payloads
           /\ _schedule' = ScheduleOnDefine(r.thrown)
           /\ js' = [NoCall EXCEPT !.op = "define", !.name = name, !.thrown = r.thrown]
    /\ UNCHANGED <<_modules, _execute, runs, invoked, issued, sequential, packageURLs, data, conc>>

\* require(name), called directly by a script
Require(name) ==
    /\ LET r == RequireIn(name, LoaderState)
       IN  /\ _payloads' = r.st.payloads
           /\ _modules' = r.st.modules
           /\ runs' = r.st.runs
           /\ js' = [NoCall EXCEPT !.op = "require", !.name = name, !.thrown = r.thrown,
                                     !.exports = r.exports,
                                     !.cached = Key(name) \in DOMAIN _modules]
    /\ UNCHANGED <<_execute, _schedule, invoked, issued, sequential, packageURLs, data, conc>>

\* the calls the page issues: c.f with one argument (the id tells them apart)
ExecuteCalls == { [module |-> NC, fn |-> 102, args |-> <<n>>] : n \in 1..2 }

\* a call whose module is not there yet is dropped
ExecuteInDropsPending(call, x) ==
    IF Key(call.module) \in DOMAIN x.st.payloads \/ Key(call.module) \in DOMAIN x.st.modules
    THEN [x EXCEPT !.st = RequireIn(call.module, x.st).st, !.invoked = Append(@, call)]
    ELSE x

\* execute(call) in state x = [st, queue, schedule, invoked, thrown]: a call
\* whose module is defined or instantiated is run at once as
\* require(module)[fn](args); any other call is put on the queue and a flush is
\* scheduled
ExecuteIn(call, x) ==
    IF Key(call.module) \in DOMAIN x.st.payloads \/ Key(call.module) \in DOMAIN x.st.modules
    THEN CHOOSE e \in
           { IF r.thrown # NoThrow
             THEN [x EXCEPT !.st = r.st, !.thrown = r.thrown]
             ELSE IF call.fn \notin r.st.modules[r.exports].exports
             THEN [x EXCEPT !.st = r.st,
                            !.thrown = [kind |-> "TypeError", name |-> call.module]]
             ELSE [x EXCEPT !.st = r.st, !.invoked = Append(@, call)] :
             r \in { RequireIn(call.module, x.st) } } : TRUE
    ELSE [x EXCEPT !.queue = Append(@, call), !.schedule = TRUE]

RECURSIVE ProcessCalls(_, _)

\* the pass handles the first captured call and forgets the others
ProcessFirstOnly(captured, x) ==
    IF captured = <<>> THEN x ELSE ExecuteIn(Head(captured), x)

\* the flush's pass over the calls it captured; a throw ends the pass
ProcessCalls(captured, x) ==
    IF captured = <<>> \/ x.thrown # NoThrow THEN x
    ELSE CHOOSE r \in { ProcessCalls(Tail(captured), y) :
                            y \in { ExecuteIn(Head(captured), x) } } : TRUE

\* the page issues execute(call)
Execute(call) ==
    /\ issued < MaxExecutes
    /\ issued' = issued + 1
    /\ LET c == [module |-> call.module, fn |-> call.fn, args |-> call.args,
                 id |-> issued + 1]
           x == ExecuteIn(c, [st |-> LoaderState, queue |-> _execute,
                              schedule |-> _schedule, invoked |-> invoked,
                              thrown |-> NoThrow])
       IN  /\ _payloads' = x.st.payloads
           /\ _modules' = x.st.modules
           /\ runs' = x.st.runs
           /\ _execute' = x.queue
           /\ _schedule' = x.schedule
           /\ invoked' = x.invoked
           /\ js' = [NoCall EXCEPT !.op = "execute", !.name = call.module,
                                     !.thrown = x.thrown]
    /\ UNCHANGED <<sequential, packageURLs, data, conc>>

\* the deferred flush runs: the queue is swapped for an empty one, the timer
\* handle is cleared, and the captured calls are processed
Flush ==
    /\ _schedule
    /\ \E x \in { ProcessCalls(_execute, [st |-> LoaderState, queue |-> <<>>,
                                           schedule |-> FALSE, invoked |-> invoked,
                                           thrown |-> NoThrow]) } :
           /\ _payloads' = x.st.payloads
           /\ _modules' = x.st.modules
           /\ runs' = x.st.runs
           /\ _execute' = x.queue
           /\ _schedule' = x.schedule
           /\ invoked' = x.invoked
           /\ js' = [NoCall EXCEPT !.op = "flush", !.thrown = x.thrown]
    /\ UNCHANGED <<issued, sequential, packageURLs, data, conc>>

LoaderNext ==
    \/ \E d \in DefineCalls : Define(d[1], d[2])
    \/ \E name \in Names \cup {NQ} : Require(name)
    \/ \E call \in ExecuteCalls : Execute(call)
    \/ Flush

\* the page of one App: the loader state does not depend on the App's
LoaderInit == ConcInit

LoaderSpec == LoaderInit /\ [][LoaderNext]_vars

\* the timer fires: a scheduled flush runs
FairLoaderSpec == LoaderSpec /\ WF_vars(Flush)

-----------------------------------------------------------------------------
(* The URL-backed module: Content() fetches the URL on the first call and     *)
(* keeps what ioutil.ReadAll handed back in m.content.                        *)

\* the server behind the URL changes what it serves
ServerChange(b) ==
    /\ remote # b
    /\ remote' = b
    /\ UNCHANGED <<html, urlm, fetches, uret, web, conc, loader, config, modules,
                   packageURLs, data, pc, roots, set, names, stack, lookups, failed,
                   ret, calls, packaged, minted>>

\* how a fetch can end: no connection, or a body read that stops after k bytes
\* (k = Len(body): the whole body was read)
FetchOutcomes(body) ==
    { [connected |-> FALSE, k |-> 0] } \cup
    { [connected |-> TRUE, k |-> k] : k \in { n \in {0, 1, Len(body)} : n <= Len(body) } }

\* ioutil.ReadAll(resp.Body) when the read stops after k bytes: the bytes read
\* so far, in a slice that is never nil, and the error of the read
ReadAll(body, k) ==
    [content |-> [isNil |-> FALSE, bytes |-> SubSeq(body, 1, k)],
     err |-> IF k < Len(body) THEN IOError(Empty) ELSE Nil]

\* m.Content() with m.content = field, when a fetch would end as out: the
\* field after the call, the bytes and the error returned, whether it fetched
URLModuleContent(field, out) ==
    IF ~field.isNil
    THEN [field |-> field, content |-> field, err |-> Nil, fetched |-> FALSE]
    ELSE IF ~out.connected
    THEN [field |-> field, content |-> NilBytes, err |-> IOError(Empty), fetched |-> TRUE]
    ELSE LET r == ReadAll(remote, out.k)
         IN  [field |-> r.content,
              content |-> IF r.err # Nil THEN NilBytes ELSE r.content,
              err |-> r.err, fetched |-> TRUE]

\* what the calls on the urlModule leave alone
besideURL == <<html, remote, web, conc, loader, config, modules, packageURLs, data, pc,
               roots, set, names, stack, lookups, failed, ret, calls, packaged, minted>>

\* urlModule.Content()
URLContent ==
    /\ \E out \in FetchOutcomes(remote) :
          LET c == URLModuleContent(urlm, out)
          IN  /\ c.fetched => fetches < MaxFetches
              /\ fetches' = IF c.fetched THEN fetches + 1 ELSE fetches
              /\ urlm' = c.field
              /\ uret' = [NoURLReturn EXCEPT !.op = "Content", !.content = c.content,
                                              !.err = c.err]
    /\ UNCHANGED besideURL

\* urlModule.Require(): requireFromModule(m)
URLRequire ==
    /\ \E out \in FetchOutcomes(remote) :
          LET c == URLModuleContent(urlm, out)
          IN  /\ c.fetched => fetches < MaxFetches
              /\ fetches' = IF c.fetched THEN fetches + 1 ELSE fetches
              /\ urlm' = c.field
              /\ uret' = [NoURLReturn EXCEPT
                            !.op = "Require", !.err = c.err,
                            !.require = IF c.err # Nil THEN <<>>
                                        ELSE ParseRequire(c.content.bytes)]
    /\ UNCHANGED besideURL

URLNext ==
    \/ \E b \in Bodies : ServerChange(b)
    \/ URLContent
    \/ URLRequire

URLSpec == ConcInit /\ [][URLNext]_vars

-----------------------------------------------------------------------------
(* The page generator: AppScripts.HTML renders one inline execute statement   *)
(* per call and the script tag of the bundle of the modules called.           *)

\* the JSON keys of the fields of Call, from its struct tags
CallTags ==
    [Module   |-> <<110, 97, 109, 101>>,      \* `json:"name"`
     Function |-> <<102, 110>>,               \* `json:"fn"`
     Args     |-> <<97, 114, 103, 115>>]      \* `json:"args"`

\* json.Marshal of a small non-negative int
MarshalInt(n) == IF n < 10 THEN <<48 + n>> ELSE <<48 + (n \div 10), 48 + (n % 10)>>

RECURSIVE JoinComma(_)
JoinComma(l) ==
    IF l = <<>> THEN <<>>
    ELSE IF Len(l) = 1 THEN Head(l)
    ELSE Head(l) \o <<44>> \o JoinComma(Tail(l))

\* json.Marshal of []interface{}: null for a nil slice, else [v1,v2,...]
MarshalArgs(args) ==
    IF args.isNil THEN <<110, 117, 108, 108>>
    ELSE <<91>> \o JoinComma([i \in 1..Len(args.list) |-> MarshalInt(args.list[i])]) \o <<93>>

\* json.Marshal of a struct with three fields under the keys tags, in field order
MarshalObject(tags, call) ==
    <<123>> \o JSONMarshal(tags.Module) \o <<58>> \o JSONMarshal(call.Module)
        \o <<44>> \o JSONMarshal(tags.Function) \o <<58>> \o JSONMarshal(call.Function)
        \o <<44>> \o JSONMarshal(tags.Args) \o <<58>> \o MarshalArgs(call.Args)
        \o <<125>>

\* json.Marshal(call)
MarshalCall(call) == MarshalObject(CallTags, call)

\* "execute(" + json.Marshal(call) + ");"
ExecuteStmt(call) ==
    <<101, 120, 101, 99, 117, 116, 101, 40>> \o MarshalCall(call) \o <<41, 59>>

\* the calls a page makes
PageCalls ==
    { [Module |-> m, Function |-> <<102>>, Args |-> a] :
        m \in {NC, NBC},
        a \in { [isNil |-> TRUE, list |-> <<>>], [isNil |-> FALSE, list |-> <<1, 12>>] } }

\* AppScripts.Calls: up to MaxPageCalls calls
CallLists == UNION { [1..n -> PageCalls] : n \in 0..MaxPageCalls }

\* AppScripts.HTML: the statements are written to the buffer, the URL of the
\* bundle of the modules called is looked up under their concatenated names or
\* minted and kept; an error of that leaves no HTML
HTML(Calls) ==
    /\ pc = "idle"
    /\ LET mods == [i \in 1..Len(Calls) |-> Calls[i].Module]
           buf == Concat([i \in 1..Len(Calls) |-> ExecuteStmt(Calls[i])])
           key == Concat(mods)
           raw == CachedURL(key)
           pkg == ContentAll(mods)
           src == PackageURL(HashKey(pkg.content))
       IN  IF raw # Empty
           THEN /\ html' = [NoHTML EXCEPT !.rendered = TRUE, !.calls = Calls,
                                           !.inline = buf, !.src = raw]
                /\ UNCHANGED <<packageURLs, data>>
           ELSE IF pkg.err # Nil
           THEN /\ html' = [NoHTML EXCEPT !.calls = Calls, !.err = pkg.err]
                /\ UNCHANGED <<packageURLs, data>>
           ELSE /\ html' = [NoHTML EXCEPT !.rendered = TRUE, !.calls = Calls,
                                           !.inline = buf, !.src = src]
                /\ data' = (HashKey(pkg.content) :> pkg.content) @@ data
                /\ packageURLs' = (key :> src) @@ packageURLs
    /\ UNCHANGED <<remote, urlm, fetches, uret, web, conc, loader, config, modules, pc,
                   roots, set, names, stack, lookups, failed, ret, calls, packaged,
                   minted>>

PageNext == \E Calls \in CallLists : HTML(Calls)

PageSpec == ConcInit /\ [][PageNext]_vars

\* the provider chain on its own: lookups and registrations
ProviderNext ==
    \/ \E name \in Names : Module(name)
    \/ \E m \in AddModules : Add(m)
    \/ \E name \in Names : CustomModule(name)

ProviderSpec == Init /\ [][ProviderNext]_vars

\* a call in progress runs on: the goroutine executing ModulesURL is scheduled
FairSpec == Spec /\ WF_vars(BuildDeps)

-----------------------------------------------------------------------------
(* Properties of packaging and resolution. *)

\* the elements of a sequence
Range(l) == { l[i] : i \in DOMAIN l }

\* ModulesURL has returned (no call is in progress)
Returned == pc = "idle" /\ ret.op = "ModulesURL"

\* the names a module found under name n requires, read without failure
ReqOf(n) ==
    IF AppModule(n).err = Nil THEN Range(ParseRequire(AppModule(n).m.content)) ELSE {}

RECURSIVE ReachFrom(_)
\* the names reachable from the names of S through requirements
ReachFrom(S) ==
    LET T == S \cup UNION { ReqOf(n) : n \in S }
    IN  IF T = S THEN S ELSE ReachFrom(T)

\* s sorts before t byte by byte: a proper prefix, or a smaller byte at the
\* first difference
BytewiseBefore(s, t) ==
    \E k \in 1..(Len(t)) :
        /\ k - 1 <= Len(s)
        /\ SubSeq(s, 1, k - 1) = SubSeq(t, 1, k - 1)
        /\ (k > Len(s) \/ s[k] < t[k])

\* statement st is a define statement for name n
DefinesName(st, n) ==
    LET prefix == <<100, 101, 102, 105, 110, 101, 40>> \o JSONMarshal(n) \o <<44>>
    IN  Len(st) >= Len(prefix) /\ SubSeq(st, 1, Len(prefix)) = prefix

\* C1: with the provider state fixed, every bundle content() builds for a root
\* list from a resolution in which nothing failed equals the first bundle it
\* built for that list, whatever order the map of visited names was ranged in.
C1_Deterministic ==
    (Returned /\ ret.built /\ failed = {} /\ roots \in DOMAIN packaged)
        => ret.stmts = packaged[roots].stmts

\* C1 witness: a bundle of several modules has been built a second time.
C1_Witness ==
    /\ Returned /\ ret.built /\ failed = {}
    /\ roots \in DOMAIN packaged
    /\ packaged[roots].times = 2
    /\ Len(ret.stmts) >= 3

\* C3: when resolution ends and no lookup and no Require() failed, the visited
\* set is exactly the set of names reachable from the roots.
C3_ExactClosure ==
    (pc = "content" /\ failed = {}) => set = ReachFrom(Range(roots))

\* C3 witness: resolution ended without failure on names two and more
\* requirements away from the root.
C3_Witness ==
    /\ pc = "content" /\ failed = {}
    /\ Len(roots) = 1
    /\ Cardinality(set) = 4

\* C4: a ModulesURL call during which a lookup or a Require() failed returns an
\* error.
C4_NoPartialBundle ==
    (Returned /\ failed # {}) => ret.err # Nil

\* C5: the bundle has one define statement per name of the resolved set, in
\* ascending byte-wise order of the names.
C5_SortedStatements ==
    (Returned /\ ret.built) =>
        /\ Len(ret.stmts) = Cardinality(set)
        /\ \A n \in set : \E i \in DOMAIN ret.stmts : DefinesName(ret.stmts[i], n)
        /\ \A i, j \in DOMAIN ret.stmts : \A n, k \in set :
              (i < j /\ DefinesName(ret.stmts[i], n) /\ DefinesName(ret.stmts[j], k))
                  => BytewiseBefore(n, k)

\* C5 witness: roots ab, a were visited in the order ab, c, a and packaged.
C5_Witness ==
    /\ Returned /\ ret.built /\ ret.err = Nil
    /\ roots = <<NAB, NA>>
    /\ lookups = <<NAB, NC, NA>>
    /\ Len(ret.stmts) = 3

\* C10: a successful ModulesURL returns /<mount path>/<key>.js where key, seven
\* hexadecimal digits, is the start of the digest of the bytes stored under it;
\* when the call built a bundle, those bytes are that bundle.
C10_StoredUnderHash ==
    (Returned /\ ret.err = Nil) =>
        \E key \in DOMAIN data :
            /\ Len(key) = 7
            /\ key = SubSeq(Sha256Hex(data[key]), 1, 7)
            /\ ret.url = <<47>> \o MountPath \o <<47>> \o key \o <<46, 106, 115>>
            /\ ret.built => data[key] = Concat(ret.stmts)

\* C10 witness: a bundle of two statements or more was stored and its URL
\* returned.
C10_Witness ==
    /\ Returned /\ ret.err = Nil /\ ret.built
    /\ Len(ret.stmts) >= 2

\* C2: buildDeps looks no name up twice, and every resolution comes to an end.
C2_Terminates ==
    /\ [](\A i, j \in DOMAIN lookups : lookups[i] = lookups[j] => i = j)
    /\ (pc = "buildDeps" ~> pc # "buildDeps")

\* C2 witness: resolution ended after meeting a module that requires itself and
\* two modules that require each other.
C2_Witness ==
    /\ pc = "content"
    /\ \E n \in set : n \in ReqOf(n)
    /\ \E n, k \in set : n # k /\ n \in ReqOf(k) /\ k \in ReqOf(n)

-----------------------------------------------------------------------------
(* Properties of the provider chain. *)

\* the indices of the owned modules named name
OwnedNamed(name) == { i \in DOMAIN Modules : Modules[i].name = name }

\* the indices of the fallback providers whose answer for name is a module or
\* an error that is not of the NotFound kind
Deciding(name) ==
    { i \in DOMAIN Providers :
        ProviderModule(Providers[i], name).err.kind # "errModuleNotFound" }

\* C6: App.Module returns the first owned module of that name when there is
\* one, whatever the fallback providers hold; a module returned when there is
\* none is one a fallback provider gave.
C6_OwnedFirst ==
    ret.op = "Module" =>
        IF OwnedNamed(ret.name) # {}
        THEN ret.err = Nil /\ ret.m = Modules[Min(OwnedNamed(ret.name))]
        ELSE ret.err = Nil =>
                \E i \in DOMAIN Providers :
                    ProviderModule(Providers[i], ret.name) = [m |-> ret.m, err |-> Nil]

\* C6 witness: a lookup of a name that two owned modules and a fallback
\* provider all hold.
C6_Witness ==
    /\ ret.op = "Module"
    /\ Cardinality(OwnedNamed(ret.name)) = 2
    /\ \E i \in DOMAIN Providers : ProviderModule(Providers[i], ret.name).err = Nil

\* C7: with no owned module of that name, App.Module returns the answer of the
\* first fallback provider that does not report NotFound, module or error, and
\* errModuleNotFound(name) when there is no such provider.
C7_FirstDecides ==
    (ret.op = "Module" /\ OwnedNamed(ret.name) = {}) =>
        IF Deciding(ret.name) = {}
        THEN ret.m = NoModule /\ ret.err = [kind |-> "errModuleNotFound", name |-> ret.name]
        ELSE LET r == ProviderModule(Providers[Min(Deciding(ret.name))], ret.name)
             IN  ret.m = r.m /\ ret.err = r.err

\* C7 witness: the first provider answered with an error that is not NotFound
\* while the next provider holds the module.
C7_Witness ==
    /\ ret.op = "Module" /\ OwnedNamed(ret.name) = {}
    /\ Len(Providers) = 2
    /\ ret.err = ProviderModule(Providers[1], ret.name).err
    /\ ret.err # Nil /\ ret.err.kind # "errModuleNotFound"
    /\ ProviderModule(Providers[2], ret.name).err = Nil

\* C8: CustomProvider.Module for a name that is not registered returns an error
\* of the NotFound kind that names the module.
C8_NotFoundKind ==
    (ret.op = "CustomProvider.Module" /\ ret.name \notin DOMAIN modules) =>
        IsNotFound(ret.err) /\ ret.err.name = ret.name

\* C9: the empty name is never registered; no step changes or removes what a
\* name is registered to; an Add of a module with the empty name or with a name
\* already registered returns an error and leaves the mapping as it was.
C9_FirstRegistrationStays ==
    /\ Empty \notin DOMAIN modules
    /\ [][ /\ \A n \in DOMAIN modules : n \in DOMAIN modules' /\ modules'[n] = modules[n]
           /\ Empty \notin DOMAIN modules'
           /\ (ret'.op = "Add" /\ (ret'.name = Empty \/ ret'.name \in DOMAIN modules))
                 => (ret'.err # Nil /\ modules' = modules) ]_vars

\* C9 witness: an Add of another module under a registered name was refused.
C9_Witness ==
    /\ ret.op = "Add" /\ ret.err # Nil
    /\ ret.name \in DOMAIN modules
    /\ modules[ret.name] # ret.m

-----------------------------------------------------------------------------
(* Properties of the bundle server. *)

\* the last request was for the URL minted for root list r and the store
\* answered it without an error
ServedMinted(r) ==
    /\ r \in DOMAIN minted
    /\ resp.path = minted[r].url
    /\ resp.gets = 1 /\ ~resp.getErr

\* C11: a request for the URL a successful ModulesURL(roots) returned is
\* answered with status 200, Content-Type text/javascript and the bundle
\* computed for those roots as the body.
C11_MintServeRoundTrip ==
    \A r \in WebRootLists :
        ServedMinted(r) =>
            /\ resp.status = 200
            /\ resp.sentHeader = TextJavascript
            /\ resp.body = minted[r].content

\* C13: a request whose basename is not 10 bytes long is answered 404 with the
\* body "invalid url\n" and without a call of ContentStore.Get; a request with
\* a basename of 10 bytes whose key the store does not hold is answered 404
\* with the body "not found\n", a different text.
C13_TwoNotFounds ==
    resp.path # Empty =>
        LET name == Base(resp.path)
        IN  /\ Len(name) # 10 =>
                  /\ resp.status = 404 /\ resp.writeHeaders = <<404>>
                  /\ resp.body = InvalidURLText
                  /\ resp.gets = 0
            /\ (Len(name) = 10 /\ ~resp.getErr /\ SubSeq(name, 1, 7) \notin DOMAIN data) =>
                  /\ resp.status = 404 /\ resp.writeHeaders = <<404>>
                  /\ resp.body = NotFoundText
                  /\ resp.body # InvalidURLText

\* C13 witness: a store holding bundles was asked for a key it does not hold.
C13_Witness ==
    /\ resp.path = AbsentPath /\ resp.gets = 1 /\ ~resp.getErr
    /\ resp.body = NotFoundText
    /\ Cardinality(DOMAIN data) >= 2

\* C14: when ContentStore.Get returns an error the response has status 500 and
\* exactly the body "error retriving package from store\n": the handler sets
\* no second status and writes nothing else.
C14_StoreErrorResponse ==
    resp.getErr =>
        /\ resp.status = 500
        /\ resp.writeHeaders = <<500>>
        /\ resp.body = StoreErrorText

-----------------------------------------------------------------------------
(* Properties of the URL cache. *)

\* C12: a ModulesURL call for a root list that a successful call was made for
\* before returns at once with the URL of that call: no lookup, no bundle
\* built, no write to the store or to the cache.
C12_CacheHit ==
    [][ (pc = "idle" /\ calls' = calls + 1 /\ roots' \in DOMAIN minted) =>
            /\ pc' = "idle"
            /\ ret'.op = "ModulesURL" /\ ret'.err = Nil
            /\ ret'.url = minted[roots'].url
            /\ ~ret'.built
            /\ lookups' = <<>> /\ set' = {}
            /\ data' = data /\ packageURLs' = packageURLs ]_vars

\* C12 witness: the second call for a root list of two names returned the URL
\* of the first without building anything.
C12_Witness ==
    /\ pc = "idle" /\ calls = 2
    /\ Len(roots) = 2 /\ roots \in DOMAIN minted
    /\ ret.op = "ModulesURL" /\ ret.err = Nil /\ ~ret.built
    /\ ret.url = minted[roots].url

-----------------------------------------------------------------------------
(* Properties of the Transform. *)

\* "define("
DefineOpen == <<100, 101, 102, 105, 110, 101, 40>>

\* what Content() of the module found under name n returns when its read
\* succeeds
ContentOf(n) == ModuleContent(AppModule(n).m, TRUE).content

NotSpace(b) == b # 32

\* what the Transform configured makes of content it accepts
Transformed(c) == IF Transform = "nil" THEN c ELSE <<10>> \o SelectSeq(c, NotSpace)

\* C15: the i-th statement of a bundle is define( then the JSON string of the
\* i-th name, a comma, the JSON string of the module's content after the
\* Transform and then the trimming of white space, and );\n; the prelude App
\* returns is the loader text after the same Transform.
C15_StatementShape ==
    /\ (Returned /\ ret.built) =>
          \A i \in DOMAIN ret.stmts :
              ret.stmts[i] =
                  DefineOpen \o JSONMarshal(names[i]) \o <<44>>
                    \o JSONMarshal(TrimSpace(Transformed(ContentOf(names[i]))))
                    \o <<41, 59, 10>>
    /\ (ret.op = "Prelude" /\ ret.err = Nil) =>
          /\ ret.bytes = Transformed(PreludeText)
          /\ prelude = ret.bytes
    /\ (ret.op = "Prelude" /\ ret.err # Nil) =>
          /\ Transform = "strict" /\ ret.err = TransformError
          /\ prelude = Empty

\* C15 witness: under the minifying Transform the module c with content
\* " o k\n" was packaged as define("c","ok");\n, and the prelude had been
\* handed out with its space dropped and a newline in front.
C15_Witness ==
    /\ Transform = "min"
    /\ Returned /\ ret.built /\ Len(ret.stmts) >= 2
    /\ \E i \in DOMAIN ret.stmts :
          ret.stmts[i] = DefineOpen \o <<34, 99, 34, 44, 34, 111, 107, 34, 41, 59, 10>>
    /\ Len(prelude) = Len(PreludeText) /\ prelude[1] = 10

-----------------------------------------------------------------------------
(* Properties of concurrent requests. *)

\* C16: the URL cache and the store tolerate concurrent requests: no two
\* goroutines are ever about to access the same map with one of them writing,
\* the runtime never ends the process over it, and the cache entry a returned
\* ModulesURL call wrote is still in the cache.
C16_ConcurrentAccessSafe ==
    /\ ~fatal
    /\ \A g, h \in Goroutines : ~Race(g, h)
    /\ \A g \in Goroutines :
          gor[g].wrote =>
              /\ Concat(gor[g].roots) \in DOMAIN packageURLs
              /\ packageURLs[Concat(gor[g].roots)] = gor[g].url

-----------------------------------------------------------------------------
(* Properties of the loader runtime. *)

\* the step is a call of define, of require, a flush
DefineStep == js'.op = "define"
RequireStep == js'.op = "require"
FlushStep == js'.op = "flush"

\* C17: a define of a name that has a pending payload or an instantiated
\* module throws 'already defined' and leaves _payloads and _modules as they
\* were.
C17_DefineTwiceThrows ==
    [][ (DefineStep /\ (Key(js'.name) \in DOMAIN _payloads
                         \/ Key(js'.name) \in DOMAIN _modules)) =>
            /\ js'.thrown = [kind |-> "already defined", name |-> js'.name]
            /\ _payloads' = _payloads
            /\ _modules' = _modules ]_vars

\* C17 witness: a define of c threw after c had been required.
C17_Witness ==
    /\ js.op = "define" /\ js.name = NC
    /\ js.thrown.kind = "already defined"
    /\ Key(NC) \in DOMAIN _modules /\ Key(NC) \notin DOMAIN _payloads

\* C18: no payload is run twice; the require that instantiates a module takes
\* its payload out of _payloads and records the module; a require of an
\* instantiated module returns the exports of its record and runs and changes
\* nothing.
C18_PayloadRunsOnce ==
    /\ \A k \in DOMAIN runs : runs[k] <= 1
    /\ [][ /\ (RequireStep /\ Key(js'.name) \in DOMAIN _modules) =>
                  /\ js'.thrown = NoThrow /\ js'.exports = Key(js'.name)
                  /\ runs' = runs /\ _modules' = _modules /\ _payloads' = _payloads
           /\ (RequireStep /\ Key(js'.name) \notin DOMAIN _modules
                 /\ Key(js'.name) \in DOMAIN runs') =>
                  /\ Key(js'.name) \in DOMAIN _payloads
                  /\ Key(js'.name) \notin DOMAIN _payloads'
                  /\ Key(js'.name) \in DOMAIN _modules'
                  /\ runs'[Key(js'.name)] = 1 ]_vars

\* C18 witness: a was required again after it and ab, which require each
\* other, had been instantiated.
C18_Witness ==
    /\ js.op = "require" /\ js.name = NA /\ js.cached /\ js.exports = Key(NA)
    /\ Key(NA) \in DOMAIN runs /\ Key(NAB) \in DOMAIN runs
    /\ _modules[Key(NA)].exports = {103}

\* C19: a require of a name with neither a pending payload nor an
\* instantiated module throws 'not found' and leaves _payloads and _modules
\* as they were.
C19_RequireMissingThrows ==
    [][ (RequireStep /\ Key(js'.name) \notin DOMAIN _payloads
                     /\ Key(js'.name) \notin DOMAIN _modules) =>
            /\ js'.thrown = [kind |-> "not found", name |-> js'.name]
            /\ _payloads' = _payloads
            /\ _modules' = _modules
            /\ runs' = runs ]_vars

\* C19 witness: q was required and not found while other modules were defined
\* and instantiated.
C19_Witness ==
    /\ js.op = "require" /\ js.name = NQ /\ js.thrown.kind = "not found"
    /\ DOMAIN _payloads # {} /\ DOMAIN _modules # {}

\* the queue positions holding call id, the invocations of call id
QueuedAt(id) == { i \in DOMAIN _execute : _execute[i].id = id }
InvokedAt(id) == { i \in DOMAIN invoked : invoked[i].id = id }

Runnable(call) == Defined(Key(call.module))
NotRunnable(call) == ~Defined(Key(call.module))

\* C21: a flush that does not throw handles each call of the queue it
\* captured once: the calls whose module is defined are invoked, in order,
\* and the others are the whole new queue, in order, none of them handled a
\* second time in the same flush.
C21_TwoPhaseFlush ==
    [][ (FlushStep /\ js'.thrown = NoThrow) =>
            /\ invoked' = invoked \o SelectSeq(_execute, Runnable)
            /\ _execute' = SelectSeq(_execute, NotRunnable)
            /\ Len(invoked') - Len(invoked) + Len(_execute') = Len(_execute) ]_vars

\* C21 witness: a flush captured two calls for c while c was not defined and
\* left them, once each, on the new queue.
C21_Witness ==
    /\ js.op = "flush" /\ js.thrown = NoThrow
    /\ Len(_execute) = 2 /\ _execute[1].id = 1 /\ _execute[2].id = 2
    /\ ~Defined(Key(NC)) /\ invoked = <<>>

\* C28: a require of a name whose payload is pending does not throw 'not
\* found' for that name, and when the payload is the empty string it
\* instantiates the module and returns its exports.
C28_DefinedIsRequirable ==
    [][ (RequireStep /\ Key(js'.name) \in DOMAIN _payloads) =>
            /\ js'.thrown # [kind |-> "not found", name |-> js'.name]
            /\ _payloads[Key(js'.name)] = Empty =>
                  /\ js'.thrown = NoThrow
                  /\ js'.exports = Key(js'.name)
                  /\ Key(js'.name) \in DOMAIN _modules' ]_vars

\* C29: no key is in both _payloads and _modules, and a key in _modules stays
\* there with the record it has, whatever call is made and whether it throws.
C29_LoaderMapsDisjoint ==
    /\ [](DOMAIN _payloads \cap DOMAIN _modules = {})
    /\ [][ \A k \in DOMAIN _modules :
               k \in DOMAIN _modules' /\ _modules'[k] = _modules[k] ]_vars

\* C29 witness: the body of bc threw on its require of q; bc stays recorded
\* while other payloads are pending.
C29_Witness ==
    /\ js.op = "require" /\ js.name = NBC
    /\ js.thrown = [kind |-> "not found", name |-> NQ]
    /\ Key(NBC) \in DOMAIN _modules /\ Key(NBC) \notin DOMAIN _payloads
    /\ DOMAIN _payloads # {}

\* a and ab, which require each other, are both pending and one of them is
\* required
CycleStep ==
    /\ RequireStep /\ js'.name \in {NA, NAB}
    /\ Key(NA) \in DOMAIN _payloads /\ Key(NAB) \in DOMAIN _payloads
    /\ NA \in Range(ParseRequire(_payloads[Key(NAB)]))
    /\ NAB \in Range(ParseRequire(_payloads[Key(NA)]))

\* C30: a require that enters the cycle a <-> ab returns: it throws for
\* neither a nor ab, both are recorded, each body has run exactly once, and
\* when c, which ab also requires, is there, the call returns the exports of
\* the module it named.
C30_CycleTerminates ==
    [][ CycleStep =>
            /\ js'.thrown \in {NoThrow, [kind |-> "not found", name |-> NC]}
            /\ (Defined(Key(NC)) => js'.thrown = NoThrow /\ js'.exports = Key(js'.name))
            /\ Key(NA) \in DOMAIN _modules' /\ Key(NAB) \in DOMAIN _modules'
            /\ Key(NA) \notin DOMAIN _payloads' /\ Key(NAB) \notin DOMAIN _payloads'
            /\ runs'[Key(NA)] = 1 /\ runs'[Key(NAB)] = 1 ]_vars

\* C30 witness: the require of a that instantiated a and ab has returned.
C30_Witness ==
    /\ js.op = "require" /\ js.name = NA /\ ~js.cached /\ js.thrown = NoThrow
    /\ Key(NA) \in DOMAIN runs /\ runs[Key(NA)] = 1
    /\ Key(NAB) \in DOMAIN runs /\ runs[Key(NAB)] = 1
    /\ _modules[Key(NA)].exports = {103}

-----------------------------------------------------------------------------
(* Properties of the URL-backed module. *)

\* the step is a call of Content() on the urlModule
URLContentStep == uret'.op = "Content" /\ remote' = remote

\* C23: once Content() has returned bytes, the next Content() returns the same
\* bytes without a fetch; a Content() that fails leaves m.content nil; and the
\* bytes a Content() returns are a whole body, never the beginning of one.
C23_URLContentMemoized ==
    [][ URLContentStep =>
            /\ (uret.op = "Content" /\ uret.err = Nil) =>
                    /\ uret'.err = Nil /\ uret'.content = uret.content
                    /\ fetches' = fetches
            /\ uret'.err # Nil => urlm'.isNil /\ uret'.content.isNil
            /\ uret'.err = Nil => uret'.content.bytes \in Bodies ]_vars

-----------------------------------------------------------------------------
(* Properties of the page generator. *)

\* the keys the loader reads a call by
LoaderCallKeys ==
    [Module   |-> <<109, 111, 100, 117, 108, 101>>,    \* call.module
     Function |-> <<102, 110>>,                        \* call.fn
     Args     |-> <<97, 114, 103, 115>>]               \* call.args

\* execute({"module":<name>,"fn":<fn>,"args":<args>});
StatedStmt(call) ==
    <<101, 120, 101, 99, 117, 116, 101, 40>> \o MarshalObject(LoaderCallKeys, call)
        \o <<41, 59>>

\* C22: the inline script AppScripts.HTML renders is, call by call and in list
\* order, the statement execute({"module":...,"fn":...,"args":...});
C22_InlineStatements ==
    html.rendered =>
        html.inline = Concat([i \in 1..Len(html.calls) |-> StatedStmt(html.calls[i])])

-----------------------------------------------------------------------------
(* Properties of the URL cache and of the served names. *)

\* C27: a request is answered 200 only when its basename is a key of the
\* store followed by ".js".
C27_ServedNameHasExtension ==
    (resp.path # Empty /\ resp.status = 200) =>
        \E k \in DOMAIN data : Base(resp.path) = k \o ext

\* ModulesURL returns in this step, a call of it is still running after it
ReturnStep == pc # "idle" /\ pc' = "idle"
RunningStep == pc' # "idle"

\* C24: a ModulesURL call that returns an error returns no URL, and from its
\* first step to its return neither the URL cache nor the store has changed;
\* the key of its root list is not in the cache afterwards.
C24_FailureChangesNothing ==
    /\ [][ RunningStep => packageURLs' = packageURLs /\ data' = data ]_vars
    /\ [][ (ReturnStep /\ ret'.err # Nil) =>
              /\ ret'.url = Empty
              /\ packageURLs' = packageURLs
              /\ data' = data
              /\ Concat(roots) \notin DOMAIN packageURLs' ]_vars

\* C24 witness: after an earlier call minted a URL, a call built its bundle
\* and failed in the store; the earlier entry is all the cache holds.
C24_Witness ==
    /\ Returned /\ ret.err # Nil /\ ret.built /\ ret.url = Empty
    /\ DOMAIN packageURLs # {} /\ Concat(roots) \notin DOMAIN packageURLs
    /\ \A k \in DOMAIN data : k # HashKey(Concat(ret.stmts))

\* C25: the URL a ModulesURL call returns was minted for a root list with
\* the closure of the roots of this call: for these roots, or for roots that
\* reach the same modules, never for another bundle.
C25_CacheSound ==
    (Returned /\ ret.err = Nil) =>
        \E r \in DOMAIN minted :
            /\ minted[r].url = ret.url
            /\ ReachFrom(Range(r)) = ReachFrom(Range(roots))

\* the root lists with the roots of the call that has returned for which a
\* URL was minted from a resolution in which nothing failed
MintedForSameRoots ==
    { r \in DOMAIN minted \cap DOMAIN packaged :
        /\ Range(r) = Range(roots)
        /\ minted[r].content = Concat(packaged[r].stmts) }

\* C26: with nothing failing, a call whose roots are, as a set, the roots of
\* an earlier call builds the same bundle bytes and returns the same URL, and
\* the URL is cached under the key of its own list.
C26_RootsAsASet ==
    (Returned /\ ret.err = Nil /\ ret.built /\ failed = {}) =>
        /\ \A r \in MintedForSameRoots :
              /\ Concat(ret.stmts) = minted[r].content
              /\ ret.url = minted[r].url
        /\ Concat(roots) \in DOMAIN packageURLs
        /\ packageURLs[Concat(roots)] = ret.url

\* C26 witness: [ab, a] was resolved after [a, ab] and got the same URL under
\* a key of its own.
C26_Witness ==
    /\ Returned /\ ret.err = Nil /\ ret.built /\ failed = {}
    /\ roots = <<NAB, NA>> /\ <<NA, NAB>> \in MintedForSameRoots
    /\ ret.url = minted[<<NA, NAB>>].url
    /\ Concat(<<NA, NAB>>) \in DOMAIN packageURLs
    /\ Concat(<<NAB, NA>>) \in DOMAIN packageURLs

====
